---- MODULE Spec2Model ----
(***************************************************************************)
(* usb-async: the identity table of the OS context (src/src/linux.rs), the *)
(* cached metadata of the facade (src/src/lib.rs) and the hotplug monitor  *)
(* stream, as a state machine.                                             *)
(*                                                                         *)
(* Option<T> is a sequence of length at most one: None is <<>>, Some(v) is *)
(* <<v>>.  Identifiers are 0-based; entry i of a Vec is element i+1 of the *)
(* sequence that models it.  Strings are sequences of characters.          *)
(***************************************************************************)
EXTENDS Integers, Sequences, FiniteSets, TLC

\* Bounds of the model.
MaxTable == 2
MaxQueue == 2

None == <<>>
Some(v) == <<v>>

(***************************************************************************)
(* The device tree (sysfs).  A locator is a syspath; a node of the tree is *)
(* absent or carries one of a few attribute sets.                          *)
(***************************************************************************)
Locators == {"usb1", "usb1/1-1"}
\* The root of the tree stays; the node under it comes and goes.
Root == "usb1"
Pluggable == Locators \ {Root}
ScanOrder == <<"usb1", "usb1/1-1">>
Parent(loc) == IF loc = "usb1/1-1" THEN Some("usb1") ELSE None

AttrNames == {"idVendor", "idProduct", "manufacturer", "product"}
NonUtf8 == "\\xff"

Absent == "absent"
Kinds == {"hub", "plain", "odd", "iface"}
\* The kinds a node can be: a root hub or a bare controller node at the
\* root; a device or an interface node under it.
KindsOf(loc) == IF loc = Root THEN {"hub", "iface"} ELSE {"plain", "odd", "iface"}

\* The attributes of a node of each kind: name -> Option<value>.
Attrs(kind) ==
    CASE kind = "hub" ->
           [idVendor |-> Some(<<"1", "D", "6", "b">>),
            idProduct |-> Some(<<"+", "0", "0", "0", "2">>),
            manufacturer |-> Some(<<"L", "x">>),
            product |-> Some(<<"x", "H", "C", "I">>)]
      [] kind = "plain" ->
           [idVendor |-> Some(<<"0", "4", "6", "d">>),
            idProduct |-> Some(<<"c", "5", "2", "b">>),
            manufacturer |-> None,
            product |-> None]
      [] kind = "odd" ->
           [idVendor |-> Some(<<"1", "g">>),
            idProduct |-> None,
            manufacturer |-> Some(<<NonUtf8>>),
            product |-> None]
      [] OTHER ->
           [idVendor |-> None, idProduct |-> None,
            manufacturer |-> None, product |-> None]

(***************************************************************************)
(* u16::from_str_radix(s, 16)                                              *)
(***************************************************************************)
U16Max == 65535

to_digit(c) ==
    CASE c = "0" -> Some(0) [] c = "1" -> Some(1) [] c = "2" -> Some(2)
      [] c = "3" -> Some(3) [] c = "4" -> Some(4) [] c = "5" -> Some(5)
      [] c = "6" -> Some(6) [] c = "7" -> Some(7) [] c = "8" -> Some(8)
      [] c = "9" -> Some(9)
      [] c \in {"a", "A"} -> Some(10) [] c \in {"b", "B"} -> Some(11)
      [] c \in {"c", "C"} -> Some(12) [] c \in {"d", "D"} -> Some(13)
      [] c \in {"e", "E"} -> Some(14) [] c \in {"f", "F"} -> Some(15)
      [] OTHER -> None

RECURSIVE parse_digits(_, _)
parse_digits(digits, acc) ==
    IF digits = <<>> THEN Some(acc)
    ELSE LET x == to_digit(Head(digits)) IN
         IF x = None THEN None
         ELSE IF acc * 16 + x[1] > U16Max THEN None
         ELSE parse_digits(Tail(digits), acc * 16 + x[1])

from_str_radix(src) ==
    IF src = <<>> THEN None
    ELSE LET digits == IF Head(src) = "+" THEN Tail(src) ELSE src IN
         IF digits = <<>> THEN None ELSE parse_digits(digits, 0)

\* OsStr::to_str
to_str(value) ==
    IF \E k \in 1..Len(value) : value[k] = NonUtf8 THEN None ELSE Some(value)

(***************************************************************************)
(* State                                                                   *)
(***************************************************************************)
VARIABLES
    sys,        \* the device tree: locator -> kind or Absent
    paths,      \* os::Context.paths: Vec<Option<PathBuf>>
    metadata,   \* Context.metadata: Vec<Metadata>
    pc,         \* "start", "scan", "lib_new", "ready", "panicked"
    mon,        \* the monitor the task drives: "none", "open"
    socket,     \* raw events pending in the monitor socket
    readiness,  \* the registration's cached read readiness
    notified,   \* the task driving the stream is scheduled to be polled
    enum,       \* the devices the startup enumerator has still to yield
    issued,     \* the identifiers add_device returned, in order
    addOf,      \* history: locator -> Option<id>, the id of the Add yielded
                \* for the last raw event read for the locator; kept in the
                \* behaviours of SpecHistory, empty in the others
    last        \* what the step just taken called and what that returned

vars == <<sys, paths, metadata, pc, mon, socket, readiness, notified, enum,
          issued, addOf, last>>

\* udev.device_from_syspath(path) succeeds
Opens(sy, loc) == sy[loc] # Absent

\* dev.attribute_value(name): the node's own attribute
attribute_value(sy, loc, name) == Attrs(sy[loc])[name]

\* fn udev_attribute_walk of udev_lookup_hex
RECURSIVE udev_attribute_walk_hex(_, _, _)
udev_attribute_walk_hex(sy, loc, name) ==
    LET attr == attribute_value(sy, loc, name) IN
    IF attr # None
    THEN LET s == to_str(attr[1]) IN
         IF s = None THEN None ELSE from_str_radix(s[1])
    ELSE IF Parent(loc) = None \/ ~Opens(sy, Parent(loc)[1]) THEN None
         ELSE udev_attribute_walk_hex(sy, Parent(loc)[1], name)

\* fn udev_attribute_walk of udev_lookup_string
RECURSIVE udev_attribute_walk_string(_, _, _)
udev_attribute_walk_string(sy, loc, name) ==
    LET attr == attribute_value(sy, loc, name) IN
    IF attr # None
    THEN to_str(attr[1])
    ELSE IF Parent(loc) = None \/ ~Opens(sy, Parent(loc)[1]) THEN None
         ELSE udev_attribute_walk_string(sy, Parent(loc)[1], name)

\* The two walks, tabulated once over every device tree.  Each level is
\* joined with the empty function so that the table is built as a value
\* once, instead of being evaluated again at every application.
Trees == [Locators -> Kinds \cup {Absent}]

walk_hex ==
    [sy \in Trees |-> [loc \in Locators |-> [name \in {"idVendor", "idProduct"} |->
        IF Opens(sy, loc) THEN udev_attribute_walk_hex(sy, loc, name) ELSE None]
        @@ <<>>] @@ <<>>] @@ <<>>

walk_string ==
    [sy \in Trees |-> [loc \in Locators |-> [name \in {"manufacturer", "product"} |->
        IF Opens(sy, loc) THEN udev_attribute_walk_string(sy, loc, name) ELSE None]
        @@ <<>>] @@ <<>>] @@ <<>>

\* The device tree is not the program's: between two opens of one handler
\* the pluggable nodes may have been plugged, unplugged or rewritten.  The
\* trees a later open may read, given the tree an earlier one read.
LaterTrees ==
    [sy \in Trees |->
        {t \in Trees :
            /\ \A loc \in Locators \ Pluggable : t[loc] = sy[loc]
            /\ \A loc \in Pluggable : t[loc] \in KindsOf(loc) \cup {Absent}
            /\ \A loc \in Locators :
                  (t[loc] # Absent /\ Parent(loc) # None)
                      => t[Parent(loc)[1]] # Absent}] @@ <<>>

\* The trees the next open may read when the handler goes on to make one;
\* when it makes none, the tree stays the one the last open read.
LaterIf(opens, sy) == IF opens THEN LaterTrees[sy] ELSE {sy}

(***************************************************************************)
(* os::Context (linux.rs)                                                  *)
(***************************************************************************)

\* add_device numbering the new entry by the length after the push: the
\* variant C1 is checked against
add_device_after_push(ps, sy, path) ==
    IF ~Opens(sy, path) THEN [id |-> None, paths |-> ps]
    ELSE IF attribute_value(sy, path, "idVendor") = None
         THEN [id |-> None, paths |-> ps]
    ELSE LET pushed == Append(ps, Some(path)) IN
         [id |-> Some(Len(pushed)), paths |-> pushed]

\* add_device putting the device into the first tombstoned entry, if there
\* is one, instead of appending: the variant C19 is checked against
add_device_reusing_slot(ps, sy, path) ==
    IF ~Opens(sy, path) THEN [id |-> None, paths |-> ps]
    ELSE IF attribute_value(sy, path, "idVendor") = None
         THEN [id |-> None, paths |-> ps]
    ELSE IF \E k \in 1..Len(ps) : ps[k] = None
         THEN LET k == CHOOSE j \in 1..Len(ps) :
                          ps[j] = None /\ \A h \in 1..(j - 1) : ps[h] # None
              IN [id |-> Some(k - 1), paths |-> [ps EXCEPT ![k] = Some(path)]]
    ELSE LET pushed == Append(ps, Some(path)) IN
         [id |-> Some(Len(pushed) - 1), paths |-> pushed]

\* add_device issuing an identifier for every node that opens, idVendor or
\* not: the variant C12 is checked against
add_device_any_node(ps, sy, path) ==
    IF ~Opens(sy, path) THEN [id |-> None, paths |-> ps]
    ELSE LET pushed == Append(ps, Some(path)) IN
         [id |-> Some(Len(pushed) - 1), paths |-> pushed]

\* fn add_device(&self, path) -> Option<Id>
add_device(ps, sy, path) ==
    IF ~Opens(sy, path) THEN [id |-> None, paths |-> ps]
    ELSE IF attribute_value(sy, path, "idVendor") = None
         THEN [id |-> None, paths |-> ps]
    ELSE LET pushed == Append(ps, Some(path)) IN
         [id |-> Some(Len(pushed) - 1), paths |-> pushed]

\* the position of the first entry equal to Some(path), from position k on
RECURSIVE find_from(_, _, _)
find_from(ps, path, k) ==
    IF k > Len(ps) THEN None
    ELSE IF ps[k] # None /\ ps[k][1] = path THEN Some(k)
    ELSE find_from(ps, path, k + 1)

\* remove_device_by_path reporting the entry it finds and leaving it
\* connected: the variant C18 is checked against
remove_device_keeping(ps, path) ==
    LET found == find_from(ps, path, 1) IN
    IF found # None
    THEN [id |-> Some(found[1] - 1), paths |-> ps]
    ELSE [id |-> None, paths |-> ps]

\* remove_device_by_path taking the entry out of the table, so that later
\* entries move down: the variant C14 is checked against
remove_device_deleting(ps, path) ==
    LET found == find_from(ps, path, 1) IN
    IF found # None
    THEN [id |-> Some(found[1] - 1),
          paths |-> SubSeq(ps, 1, found[1] - 1) \o
                    SubSeq(ps, found[1] + 1, Len(ps))]
    ELSE [id |-> None, paths |-> ps]

\* remove_device_by_path falling back to the first entry when no connected
\* entry holds the locator: the variant C7 is checked against
remove_device_first_entry(ps, path) ==
    LET found == find_from(ps, path, 1) IN
    IF found # None
    THEN [id |-> Some(found[1] - 1), paths |-> [ps EXCEPT ![found[1]] = None]]
    ELSE IF ps # <<>>
    THEN [id |-> Some(0), paths |-> [ps EXCEPT ![1] = None]]
    ELSE [id |-> None, paths |-> ps]

\* fn remove_device_by_path(&self, path) -> Option<Id>
remove_device_by_path(ps, path) ==
    LET found == find_from(ps, path, 1) IN
    IF found # None
    THEN [id |-> Some(found[1] - 1), paths |-> [ps EXCEPT ![found[1]] = None]]
    ELSE [id |-> None, paths |-> ps]

\* fn id(&self, id) -> Result<usize, UsbError>
id(ps, i) ==
    IF i < Len(ps)
    THEN IF ps[i + 1] # None THEN "Ok" ELSE "NotConnected"
    ELSE "InvalidId"

\* is_connected looking at the range only: the variant C8 is checked against
is_connected_in_range(ps, i) == id(ps, i) # "InvalidId"

\* pub fn is_connected(&self, id) -> bool
is_connected(ps, i) == id(ps, i) = "Ok"

\* pub fn devices(&self): 0..len
devices(ps) == [k \in 1..Len(ps) |-> k - 1]

(***************************************************************************)
(* The attribute lookups.  The Ref returned by self.paths.borrow() in the  *)
(* argument of device_from_syspath lives to the end of the let statement,  *)
(* so the borrow_mut() in the map_err closure of that statement panics     *)
(* (BorrowMutError) before it writes; the closure of ok_or_else runs with  *)
(* no borrow held and writes None.                                         *)
(***************************************************************************)

\* fn udev_lookup_hex(&self, id, attr) -> Result<u16, UsbError>
udev_lookup_hex(ps, sy, i, attr) ==
    IF id(ps, i) # "Ok"
    THEN [out |-> id(ps, i), val |-> None, paths |-> ps]
    ELSE IF ~Opens(sy, ps[i + 1][1])
    THEN [out |-> "Panic", val |-> None, paths |-> ps]
    ELSE LET w == walk_hex[sy][ps[i + 1][1]][attr] IN
         IF w = None
         THEN [out |-> "NotConnected", val |-> None,
               paths |-> [ps EXCEPT ![i + 1] = None]]
         ELSE [out |-> "Ok", val |-> w, paths |-> ps]

\* udev_lookup_string answering NotConnected for every identifier that is
\* not connected, issued or not: the variant C9 is checked against
udev_lookup_string_one_error(ps, sy, i, attr) ==
    IF id(ps, i) # "Ok"
    THEN [out |-> "NotConnected", val |-> None, paths |-> ps]
    ELSE IF ~Opens(sy, ps[i + 1][1])
    THEN [out |-> "Panic", val |-> None, paths |-> ps]
    ELSE LET w == walk_string[sy][ps[i + 1][1]][attr] IN
         IF w = None
         THEN [out |-> "NotConnected", val |-> None,
               paths |-> [ps EXCEPT ![i + 1] = None]]
         ELSE [out |-> "Ok", val |-> w, paths |-> ps]

\* fn udev_lookup_string(&self, id, attr) -> Result<String, UsbError>
udev_lookup_string(ps, sy, i, attr) ==
    IF id(ps, i) # "Ok"
    THEN [out |-> id(ps, i), val |-> None, paths |-> ps]
    ELSE IF ~Opens(sy, ps[i + 1][1])
    THEN [out |-> "Panic", val |-> None, paths |-> ps]
    ELSE LET w == walk_string[sy][ps[i + 1][1]][attr] IN
         IF w = None
         THEN [out |-> "NotConnected", val |-> None,
               paths |-> [ps EXCEPT ![i + 1] = None]]
         ELSE [out |-> "Ok", val |-> w, paths |-> ps]

(***************************************************************************)
(* Context (lib.rs)                                                        *)
(***************************************************************************)

\* add refreshing every earlier entry of the metadata with the values it
\* has just looked up: the variant C10 is checked against
add_refreshing(ps, md, sv, sp, i) ==
    LET v == udev_lookup_hex(ps, sv, i, "idVendor") IN
    IF v.out = "Panic" THEN [panic |-> TRUE, paths |-> ps, metadata |-> md]
    ELSE LET p == udev_lookup_hex(v.paths, sp, i, "idProduct") IN
         IF p.out = "Panic"
         THEN [panic |-> TRUE, paths |-> v.paths, metadata |-> md]
         ELSE LET fresh == [vendor_id |-> v.val, product_id |-> p.val] IN
              [panic |-> FALSE, paths |-> p.paths,
               metadata |-> Append([k \in 1..Len(md) |-> fresh], fresh)]

\* fn add(&self, id): the two lookups (.ok() drops the error), then the push.
\* Each lookup opens the node anew: the vendor lookup reads the tree sv, the
\* product lookup the tree sp.
add(ps, md, sv, sp, i) ==
    LET v == udev_lookup_hex(ps, sv, i, "idVendor") IN
    IF v.out = "Panic" THEN [panic |-> TRUE, paths |-> ps, metadata |-> md]
    ELSE LET p == udev_lookup_hex(v.paths, sp, i, "idProduct") IN
         IF p.out = "Panic"
         THEN [panic |-> TRUE, paths |-> v.paths, metadata |-> md]
         ELSE [panic |-> FALSE, paths |-> p.paths,
               metadata |-> Append(md, [vendor_id |-> v.val,
                                        product_id |-> p.val])]

\* pub fn vendor_id(&self, id) -> Option<u16>: indexes the metadata
vendor_id(md, i) ==
    IF i < Len(md) THEN [panic |-> FALSE, val |-> md[i + 1].vendor_id]
    ELSE [panic |-> TRUE, val |-> None]

\* pub fn product_id(&self, id) -> Option<u16>
product_id(md, i) ==
    IF i < Len(md) THEN [panic |-> FALSE, val |-> md[i + 1].product_id]
    ELSE [panic |-> TRUE, val |-> None]

(***************************************************************************)
(* Initial state: before Context::new, over any device tree.               *)
(***************************************************************************)

\* A node exists only under an existing parent.
WellFormed(sy) ==
    \A loc \in Locators :
        (sy[loc] # Absent /\ Parent(loc) # None) => sy[Parent(loc)[1]] # Absent

Call(op, raw, arg, out, idv, str, prelen) ==
    [op |-> op, raw |-> raw, arg |-> arg, out |-> out, id |-> idv,
     str |-> str, prelen |-> prelen]

NoCall == Call("none", None, None, "none", None, None, 0)

\* the history is not kept
NoHistory == <<>>

\* the poll that read a raw event for the locator yielded Add(v[1]), or,
\* with v = None, no Add
Record(h, loc, v) == IF DOMAIN h = {} THEN h ELSE [h EXCEPT ![loc] = v]

Construction ==
    /\ sys \in {sy \in Trees :
                  /\ WellFormed(sy)
                  /\ \A loc \in Locators :
                        sy[loc] \in KindsOf(loc) \/ (loc # Root /\ sy[loc] = Absent)}
    /\ paths = <<>>
    /\ metadata = <<>>
    /\ pc = "start"
    /\ mon = "none"
    /\ socket = <<>>
    /\ readiness = FALSE
    /\ notified = FALSE
    /\ enum = <<>>
    /\ issued = <<>>
    /\ last = NoCall

Init == Construction /\ addOf = NoHistory

InitHistory == Construction /\ addOf = [loc \in Locators |-> None]

(***************************************************************************)
(* The device tree changes under the program.                              *)
(***************************************************************************)
Plug(loc, kind) ==
    /\ sys[loc] = Absent
    /\ Parent(loc) # None => sys[Parent(loc)[1]] # Absent
    /\ sys' = [sys EXCEPT ![loc] = kind]
    /\ last' = NoCall
    /\ UNCHANGED <<paths, metadata, pc, mon, socket, readiness, notified,
                   enum, issued, addOf>>

Unplug(loc) ==
    /\ sys[loc] # Absent
    /\ sys' = [l \in Locators |->
                 IF l = loc \/ Parent(l) = Some(loc) THEN Absent ELSE sys[l]]
    /\ last' = NoCall
    /\ UNCHANGED <<paths, metadata, pc, mon, socket, readiness, notified,
                   enum, issued, addOf>>

AttrChange(loc, kind) ==
    /\ sys[loc] # Absent
    /\ sys[loc] # kind
    /\ sys' = [sys EXCEPT ![loc] = kind]
    /\ last' = NoCall
    /\ UNCHANGED <<paths, metadata, pc, mon, socket, readiness, notified,
                   enum, issued, addOf>>

(***************************************************************************)
(* Context::new: os::Context::new scans, then lib's loop adds the metadata *)
(***************************************************************************)
pcAfter(en, ps, md) ==
    IF en # <<>> THEN "scan"
    ELSE IF Len(md) < Len(ps) THEN "lib_new" ELSE "ready"

Present(loc) == sys[loc] # Absent

\* enumerator.scan_devices()
ScanStart ==
    /\ pc = "start"
    /\ enum' = SelectSeq(ScanOrder, Present)
    /\ pc' = pcAfter(enum', paths, metadata)
    /\ last' = NoCall
    /\ UNCHANGED <<sys, paths, metadata, mon, socket, readiness, notified,
                   issued, addOf>>

\* the scan loop spending an identifier on a device add_device turns down
\* (a tombstone is pushed for it): the variant C13 is checked against
ScanAdd_spending ==
    /\ pc = "scan"
    /\ \E r \in {add_device(paths, sys, Head(enum))} :
       /\ paths' = IF r.id # None THEN r.paths ELSE Append(paths, None)
       /\ issued' = Append(issued, Len(paths))
       /\ enum' = Tail(enum)
       /\ pc' = pcAfter(enum', paths', metadata)
       /\ last' = Call("add_device", Some([type |-> "Scan", path |-> Head(enum)]),
                       None, IF r.id # None THEN "Some" ELSE "None", r.id,
                       None, Len(paths))
    /\ UNCHANGED <<sys, metadata, mon, socket, readiness, notified, addOf>>

\* let _ = context.add_device(dev.syspath())
ScanAdd ==
    /\ pc = "scan"
    /\ \E r \in {add_device(paths, sys, Head(enum))} :
       /\ paths' = r.paths
       /\ issued' = IF r.id # None THEN Append(issued, r.id[1]) ELSE issued
       /\ enum' = Tail(enum)
       /\ pc' = pcAfter(enum', paths', metadata)
       /\ last' = Call("add_device", Some([type |-> "Scan", path |-> Head(enum)]),
                       None, IF r.id # None THEN "Some" ELSE "None", r.id,
                       None, Len(paths))
    /\ UNCHANGED <<sys, metadata, mon, socket, readiness, notified, addOf>>

\* for dev in context.devices() { context.add(dev) }: one iteration.  The
\* vendor lookup opens the node in the tree as it is; the product lookup
\* opens it, when the vendor lookup returned Ok, in the tree as it is by then.
NewAdd ==
    /\ pc = "lib_new"
    /\ \E i \in {Len(metadata)} :
       \E sp \in LaterIf(udev_lookup_hex(paths, sys, i, "idVendor").out = "Ok",
                         sys) :
       \E a \in {add(paths, metadata, sys, sp, i)} :
       /\ sys' = sp
       /\ paths' = a.paths
       /\ metadata' = a.metadata
       /\ pc' = IF a.panic THEN "panicked" ELSE pcAfter(enum, paths', metadata')
       /\ last' = Call("add", None, Some(i), IF a.panic THEN "Panic" ELSE "Ok",
                       None, None, Len(paths))
    /\ UNCHANGED <<mon, socket, readiness, notified, enum, issued, addOf>>

(***************************************************************************)
(* The monitor.  The registration's readiness is edge-triggered: an        *)
(* arrival sets it, poll_read_ready returning Ready clears it.  The task   *)
(* that drives the stream is polled when it is notified: on creation, by   *)
(* the reactor on an arrival, and again after it was handed an item.  A    *)
(* poll that returns NotReady leaves the task waiting for the reactor.     *)
(* A value a handler computes once is bound once, with \E over a singleton. *)
(***************************************************************************)
EventTypes == {"Add", "Remove", "Change", "Unknown"}

\* pub fn monitor(&self): a new socket and a new registration.  The task
\* drives the monitor just made; one made earlier is from then on among the
\* further monitors.
MonitorNew ==
    /\ pc = "ready"
    /\ mon' = "open"
    /\ socket' = <<>>
    /\ readiness' = FALSE
    /\ notified' = TRUE
    /\ last' = NoCall
    /\ UNCHANGED <<sys, paths, metadata, pc, enum, issued, addOf>>

Adds(q) == Len(SelectSeq(q, LAMBDA e : e.type = "Add"))

\* The raw feed delivers an event into the socket; the reactor sees the edge.
Deliver(type, loc) ==
    /\ pc = "ready"
    /\ mon = "open"
    /\ Len(socket) < MaxQueue
    /\ type = "Add" => Len(paths) + Adds(socket) < MaxTable
    /\ socket' = Append(socket, [type |-> type, path |-> loc])
    /\ readiness' = TRUE
    /\ notified' = TRUE
    /\ last' = NoCall
    /\ UNCHANGED <<sys, paths, metadata, pc, mon, enum, issued, addOf>>

\* The reactor reports readiness with nothing to read.
SpuriousReady ==
    /\ pc = "ready"
    /\ mon = "open"
    /\ ~readiness
    /\ readiness' = TRUE
    /\ notified' = TRUE
    /\ last' = NoCall
    /\ UNCHANGED <<sys, paths, metadata, pc, mon, socket, enum, issued, addOf>>

Polling == pc = "ready" /\ mon = "open" /\ notified

\* register(..)? or poll_read_ready()? fails: Err(err.into()), and nothing
\* else.  The socket, the readiness and the monitor are as they were, and
\* the consumer, handed the error, may poll the stream again.
PollIoError ==
    /\ Polling
    /\ last' = Call("poll", None, None, "Err", None, None, Len(paths))
    /\ UNCHANGED <<sys, paths, metadata, pc, mon, socket, readiness, notified,
                   enum, issued, addOf>>

\* poll_read_ready() is NotReady: the task waits for the reactor
PollNotReady ==
    /\ Polling
    /\ ~readiness
    /\ notified' = FALSE
    /\ last' = Call("poll", None, None, "NotReady", None, None, Len(paths))
    /\ UNCHANGED <<sys, paths, metadata, pc, mon, socket, readiness, enum,
                   issued, addOf>>

\* Ready, and socket.next() is None
PollEmpty ==
    /\ Polling
    /\ readiness
    /\ socket = <<>>
    /\ readiness' = FALSE
    /\ notified' = FALSE
    /\ last' = Call("poll", None, None, "NotReady", None, None, Len(paths))
    /\ UNCHANGED <<sys, paths, metadata, pc, mon, socket, enum, issued, addOf>>

\* reading takes the newest pending event off the socket instead of the
\* oldest: the variant C11 is checked against
PollReads_newest(type) ==
    /\ Polling
    /\ readiness
    /\ socket # <<>>
    /\ Head(socket).type = type
    /\ socket' = SubSeq(socket, 1, Len(socket) - 1)
    /\ readiness' = FALSE

\* Ready and readable, socket.next() is Some(event) of this type
PollReads(type) ==
    /\ Polling
    /\ readiness
    /\ socket # <<>>
    /\ Head(socket).type = type
    /\ socket' = Tail(socket)
    /\ readiness' = FALSE

\* udev::EventType::Add, add_device returns None: Ok(Async::NotReady)
PollAddNone ==
    /\ PollReads("Add")
    /\ add_device(paths, sys, Head(socket).path).id = None
    /\ notified' = FALSE
    /\ addOf' = Record(addOf, Head(socket).path, None)
    /\ last' = Call("poll", Some(Head(socket)), None, "NotReady", None, None,
                    Len(paths))
    /\ UNCHANGED <<sys, paths, metadata, pc, mon, enum, issued>>

\* udev::EventType::Add, add_device returns Some(id): Event::Add(id), then
\* HotplugMonitor::poll's self.context.add(id).  add_device opens the node
\* in the tree as it is, add's vendor lookup in the tree as it is by then,
\* and its product lookup, made when the vendor lookup returned Ok, in the
\* tree as it is by then.
PollAddSome ==
    /\ PollReads("Add")
    /\ add_device(paths, sys, Head(socket).path).id # None
    /\ \E ev \in {Head(socket)} :
       \E r \in {add_device(paths, sys, ev.path)} :
       \E sv \in LaterTrees[sys] :
       \E sp \in LaterIf(udev_lookup_hex(r.paths, sv, r.id[1], "idVendor").out
                            = "Ok", sv) :
       \E a \in {add(r.paths, metadata, sv, sp, r.id[1])} :
       /\ sys' = sp
       /\ paths' = a.paths
       /\ metadata' = a.metadata
       /\ issued' = Append(issued, r.id[1])
       /\ pc' = IF a.panic THEN "panicked" ELSE pc
       /\ notified' = TRUE
       /\ addOf' = Record(addOf, ev.path, IF a.panic THEN None ELSE r.id)
       /\ last' = Call("poll", Some(ev), None,
                       IF a.panic THEN "Panic" ELSE "Add", r.id, None,
                       Len(paths))
    /\ UNCHANGED <<mon, enum>>

PollAdd == PollAddNone \/ PollAddSome

\* udev::EventType::Remove
PollRemove ==
    /\ PollReads("Remove")
    /\ \E ev \in {Head(socket)} :
       \E r \in {remove_device_by_path(paths, ev.path)} :
       /\ paths' = r.paths
       /\ notified' = (r.id # None)
       /\ addOf' = Record(addOf, ev.path, None)
       /\ last' = Call("poll", Some(ev), None,
                       IF r.id # None THEN "Remove" ELSE "NotReady", r.id,
                       None, Len(paths))
    /\ UNCHANGED <<sys, metadata, pc, mon, enum, issued>>

\* udev::EventType::Change | udev::EventType::Unknown
PollOther ==
    /\ \E type \in {"Change", "Unknown"} : PollReads(type)
    /\ notified' = FALSE
    /\ addOf' = Record(addOf, Head(socket).path, None)
    /\ last' = Call("poll", Some(Head(socket)), None, "NotReady", None, None,
                    Len(paths))
    /\ UNCHANGED <<sys, paths, metadata, pc, mon, enum, issued>>

Poll == PollNotReady \/ PollEmpty \/ PollAdd \/ PollRemove \/ PollOther

(***************************************************************************)
(* Further monitors.  Context::monitor can be called again; each monitor   *)
(* has its own socket and runs the same poll on the shared tables.  The    *)
(* sockets of further monitors are not tracked: any raw event may be the   *)
(* one such a monitor reads.                                               *)
(***************************************************************************)

\* Monitor::poll, then HotplugMonitor::poll, on the raw event read.
\* add_device opens the node in the tree sy, add's vendor lookup in sv, its
\* product lookup in sp.
poll_event(ps, md, sy, sv, sp, ev) ==
    IF ev.type = "Add"
    THEN LET r == add_device(ps, sy, ev.path) IN
         IF r.id = None
         THEN [out |-> "NotReady", id |-> None, paths |-> ps, metadata |-> md]
         ELSE LET a == add(r.paths, md, sv, sp, r.id[1]) IN
              [out |-> IF a.panic THEN "Panic" ELSE "Add", id |-> r.id,
               paths |-> a.paths, metadata |-> a.metadata]
    ELSE IF ev.type = "Remove"
    THEN LET r == remove_device_by_path(ps, ev.path) IN
         [out |-> IF r.id # None THEN "Remove" ELSE "NotReady", id |-> r.id,
          paths |-> r.paths, metadata |-> md]
    ELSE [out |-> "NotReady", id |-> None, paths |-> ps, metadata |-> md]

\* a further monitor is polled and reads a raw event; the opens of an Add
\* that add_device accepts read the tree as PollAddSome's do
OtherMonitorPoll(type, loc) ==
    /\ pc = "ready"
    /\ type = "Add" => Len(paths) + Adds(socket) < MaxTable
    /\ \E ev \in {[type |-> type, path |-> loc]} :
       \E d \in {add_device(paths, sys, loc)} :
       \E sv \in LaterIf(type = "Add" /\ d.id # None, sys) :
       \E sp \in LaterIf(/\ type = "Add"
                         /\ d.id # None
                         /\ udev_lookup_hex(d.paths, sv, d.id[1], "idVendor").out
                               = "Ok", sv) :
       \E r \in {poll_event(paths, metadata, sys, sv, sp, ev)} :
       /\ sys' = sp
       /\ paths' = r.paths
       /\ metadata' = r.metadata
       /\ issued' = IF ev.type = "Add" /\ r.id # None
                    THEN Append(issued, r.id[1]) ELSE issued
       /\ pc' = IF r.out = "Panic" THEN "panicked" ELSE pc
       /\ last' = Call("poll", Some(ev), None, r.out, r.id, None, Len(paths))
    /\ UNCHANGED <<mon, socket, readiness, notified, enum, addOf>>

(***************************************************************************)
(* The string accessors of the facade                                      *)
(***************************************************************************)
StringQuery(op, attr, i) ==
    /\ pc = "ready"
    /\ \E r \in {udev_lookup_string(paths, sys, i, attr)} :
       /\ paths' = r.paths
       /\ pc' = IF r.out = "Panic" THEN "panicked" ELSE pc
       /\ last' = Call(op, None, Some(i), r.out, None, r.val, Len(paths))
    /\ UNCHANGED <<sys, metadata, mon, socket, readiness, notified, enum,
                   issued, addOf>>

\* pub fn manufacturer_string(&self, id)
manufacturer_string(i) == StringQuery("manufacturer_string", "manufacturer", i)

\* pub fn product_string(&self, id)
product_string(i) == StringQuery("product_string", "product", i)

Ids == 0..MaxTable

Next ==
    \/ \E loc \in Pluggable : \E kind \in KindsOf(loc) : Plug(loc, kind)
    \/ \E loc \in Pluggable : Unplug(loc)
    \/ \E loc \in Pluggable : \E kind \in KindsOf(loc) : AttrChange(loc, kind)
    \/ ScanStart
    \/ ScanAdd
    \/ NewAdd
    \/ MonitorNew
    \/ \E type \in EventTypes, loc \in Pluggable : Deliver(type, loc)
    \/ SpuriousReady
    \/ PollIoError
    \/ PollNotReady
    \/ PollEmpty
    \/ PollAddNone
    \/ PollAddSome
    \/ PollRemove
    \/ PollOther
    \/ \E type \in {"Add", "Remove"}, loc \in Pluggable :
          OtherMonitorPoll(type, loc)
    \/ \E i \in Ids : manufacturer_string(i)
    \/ \E i \in Ids : product_string(i)

Spec == Init /\ [][Next]_vars

\* The executor polls a notified task.
FairSpec == Spec /\ WF_vars(Poll)

\* The same runs, with the history of yielded Adds kept.
SpecHistory == InitHistory /\ [][Next]_vars

(***************************************************************************)
(* Properties                                                              *)
(***************************************************************************)
StringOps == {"manufacturer_string", "product_string"}

\* the step just taken was a poll that read a raw event of this type
PolledRaw(type) ==
    last.op = "poll" /\ last.raw # None /\ last.raw[1].type = type

\* no connected entry of the table holds the locator
NotHeld(ps, loc) == \A k \in 1..Len(ps) : ps[k] # Some(loc)

\* C1: every add_device call that returns Some(id) returns the table length
\* before the call and grows the table by exactly one, a call that returns
\* None leaves the length unchanged, and the identifiers issued so far are
\* exactly 0..len-1 in issuance order.
C1_DenseIssuance ==
    /\ issued = devices(paths)
    /\ (last.op = "add_device" \/ PolledRaw("Add")) =>
          IF last.id # None
          THEN last.id[1] = last.prelen /\ Len(paths) = last.prelen + 1
          ELSE Len(paths) = last.prelen

\* C1 witness: a poll issued identifier 1 after the startup scan issued 0.
C1_Witness ==
    /\ PolledRaw("Add")
    /\ last.out = "Add"
    /\ last.id = Some(1)
    /\ issued = <<0, 1>>

\* C2: when a poll yielded Event::Add(id) for a raw Add on a locator and the
\* next raw event read for that locator is a Remove, the poll that reads it
\* yields Event::Remove(id), after which id is not connected and is still
\* listed by devices(), whatever queries were made in between.
C2_AddThenRemove ==
    [][(PollRemove /\ addOf[Head(socket).path] # None) =>
          /\ last'.out = "Remove"
          /\ last'.id = addOf[Head(socket).path]
          /\ ~is_connected(paths', addOf[Head(socket).path][1])
          /\ \E k \in 1..Len(paths') :
                devices(paths')[k] = addOf[Head(socket).path][1]]_vars

\* C3: a string accessor called on a connected entry whose locator no longer
\* opens returns NotConnected and leaves the entry tombstoned, without a
\* panic.
C3_VanishedIsNotConnected ==
    [][\A i \in Ids :
          ( /\ manufacturer_string(i) \/ product_string(i)
            /\ is_connected(paths, i)
            /\ ~Opens(sys, paths[i + 1][1]) ) =>
          /\ last'.out = "NotConnected"
          /\ pc' # "panicked"
          /\ paths' = [paths EXCEPT ![i + 1] = None]]_vars

\* C4: a failure to resolve the vendor or product ID while caching leaves
\* the new entry connected: the identifier is connected right after the
\* poll that yields Event::Add(id), and right after Context::new has cached
\* the metadata of a scanned device that is still present.
C4_CachingKeepsConnected ==
    /\ (last.op = "poll" /\ last.out = "Add") => is_connected(paths, last.id[1])
    /\ (last.op = "add" /\ last.out = "Ok") => is_connected(paths, last.arg[1])

\* a raw Add of a device that add_device accepts is pending, the monitor is
\* live, and the task that drives the stream is not scheduled
Stalled ==
    /\ pc = "ready"
    /\ mon = "open"
    /\ ~notified
    /\ \E k \in 1..Len(socket) :
          /\ socket[k].type = "Add"
          /\ add_device(paths, sys, socket[k].path).id # None

\* C5: under fair scheduling, a pending raw Add of a genuine device does not
\* stay unread for ever: the stream never stalls with it in the socket.
C5_NeverStalls == []<>(~Stalled)

\* C6: in any reachable table, for any locator held by a connected entry,
\* the first of two remove_device_by_path calls returns Some(id) and
\* tombstones id, and the second returns None and changes nothing.
C6_RemoveTwice ==
    \A loc \in Locators :
        ~NotHeld(paths, loc) =>
            LET first == remove_device_by_path(paths, loc)
                second == remove_device_by_path(first.paths, loc) IN
            /\ first.id # None
            /\ first.paths = [paths EXCEPT ![first.id[1] + 1] = None]
            /\ second.id = None
            /\ second.paths = first.paths

\* C6 is stated over tables in which two connected entries can hold the same
\* locator: add_device appends without looking for one.

\* C7: a poll that reads a raw Remove for a locator no connected entry holds
\* returns not-ready and leaves the table as it was: same length, every
\* identifier as connected as before.
C7_UnknownRemoveIsNoOp ==
    [][(PollRemove /\ NotHeld(paths, Head(socket).path)) =>
          /\ last'.out = "NotReady"
          /\ last'.id = None
          /\ Len(paths') = Len(paths)
          /\ \A i \in Ids : is_connected(paths', i) = is_connected(paths, i)
          /\ pc' = pc /\ mon' = mon]_vars

\* C7 witness: such a Remove was read with one entry connected and one
\* already tombstoned.
C7_Witness ==
    /\ PolledRaw("Remove")
    /\ last.out = "NotReady"
    /\ \E i, j \in Ids : is_connected(paths, i) /\ id(paths, j) = "NotConnected"

\* C8: is_connected(id) is true exactly when id is below the table length
\* and the entry's locator is Some; it is false for the identifier a poll
\* just yielded in Event::Remove and for the identifier a string accessor
\* just answered NotConnected for.
C8_ConnectedIffSome ==
    /\ \A i \in 0..(MaxTable + 1) :
          is_connected(paths, i) <=> (i < Len(paths) /\ paths[i + 1] # None)
    /\ (last.op = "poll" /\ last.out = "Remove") =>
          ~is_connected(paths, last.id[1])
    /\ (last.op \in StringOps /\ last.out = "NotConnected") =>
          ~is_connected(paths, last.arg[1])

\* C8 witness: a string accessor has just tombstoned entry 0 while entry 1
\* is connected.
C8_Witness ==
    /\ last.op \in StringOps
    /\ last.out = "NotConnected"
    /\ last.arg = Some(0)
    /\ last.prelen = 2
    /\ paths[1] = None
    /\ paths[2] # None

\* C9: manufacturer_string(id) and product_string(id) fail with InvalidId
\* for an id at or above the table length and with NotConnected for an
\* issued id whose entry is tombstoned; both leave the table unchanged and
\* return no string.
C9_StringErrors ==
    [][\A i \in Ids :
          (last'.op \in StringOps /\ last'.arg = Some(i)) =>
             /\ i >= Len(paths) =>
                   last'.out = "InvalidId" /\ last'.str = None /\ paths' = paths
             /\ (i < Len(paths) /\ paths[i + 1] = None) =>
                   last'.out = "NotConnected" /\ last'.str = None
                   /\ paths' = paths]_vars

\* C9 witness: product_string was called on the tombstoned entry 0 of a
\* table whose entry 1 is connected.
C9_Witness ==
    /\ last.op = "product_string"
    /\ last.arg = Some(0)
    /\ last.out = "NotConnected"
    /\ last.prelen = 2
    /\ paths[2] # None

\* C10: the values vendor_id(id) and product_id(id) return are fixed when
\* the metadata of id is pushed: no step changes them.
C10_CacheWriteOnce ==
    [][metadata' # metadata =>
          \A i \in 0..(Len(metadata) - 1) :
             /\ vendor_id(metadata', i) = vendor_id(metadata, i)
             /\ product_id(metadata', i) = product_id(metadata, i)]_vars

\* C10 witness: the cached vendor ID of a connected entry differs from what
\* the device now resolves to, and a later identifier has been added.
C10_Witness ==
    /\ pc = "ready"
    /\ Len(metadata) = 2
    /\ paths[1] # None
    /\ Opens(sys, paths[1][1])
    /\ vendor_id(metadata, 0).val # walk_hex[sys][paths[1][1]]["idVendor"]

\* C11: a poll takes at most one raw event off the socket, the oldest one,
\* and the event it yields is the one decoded from that raw event, so the
\* yielded events keep the order of the raw feed; the identifier of a yielded
\* Add is above every identifier issued before it.
C11_OrderPreserved ==
    [][(last'.op = "poll" /\ Poll) =>
          /\ socket' = socket \/ socket' = Tail(socket)
          /\ last'.out \in {"Add", "Remove"} =>
                /\ socket # <<>>
                /\ socket' = Tail(socket)
                /\ last'.raw = Some(Head(socket))
                /\ last'.out = Head(socket).type
          /\ last'.out = "Add" =>
                \A k \in 1..Len(issued) : issued[k] < last'.id[1]]_vars

\* C11 witness: a poll has yielded Add(1), after identifier 0 was issued and
\* removed, with a later raw event still pending behind it.
C11_Witness ==
    /\ PolledRaw("Add")
    /\ last.out = "Add"
    /\ last.id = Some(1)
    /\ paths[1] = None
    /\ socket # <<>>

\* C12: a poll that reads a raw Add whose locator does not open, or whose
\* device carries no idVendor of its own, returns not-ready: no event, no
\* identifier issued, the table and the cached metadata as they were, and
\* neither an error nor the end of the stream.
C12_UnusableAddSuppressed ==
    [][(/\ last'.op = "poll"
        /\ PollAdd
        /\ \/ ~Opens(sys, Head(socket).path)
           \/ attribute_value(sys, Head(socket).path, "idVendor") = None) =>
          /\ last'.out = "NotReady"
          /\ last'.id = None
          /\ paths' = paths
          /\ metadata' = metadata
          /\ issued' = issued
          /\ mon' = mon
          /\ pc' = pc]_vars

\* C12 witness: a raw Add for a node that opens but is a bare interface was
\* read and suppressed, with an identifier already in the table.
C12_Witness ==
    /\ PolledRaw("Add")
    /\ last.out = "NotReady"
    /\ sys[last.raw[1].path] = "iface"
    /\ paths # <<>>

\* the position of a locator in the enumeration
ScanPos(loc) == CHOOSE k \in 1..Len(ScanOrder) : ScanOrder[k] = loc

\* C13: Context::new starts from an empty table; each enumerated device that
\* opens and carries idVendor is appended and gets the next identifier, each
\* other one is skipped without error and without an identifier; so while
\* the scan runs the table holds the accepted devices in enumeration order,
\* and devices() yields the identifiers issued, 0..k-1.
C13_StartupScan ==
    [][/\ ScanStart => paths = <<>> /\ issued = <<>>
       /\ ScanAdd =>
            /\ LET dev == Head(enum)
                   usable == /\ Opens(sys, dev)
                             /\ attribute_value(sys, dev, "idVendor") # None
               IN IF usable
                  THEN /\ paths' = Append(paths, Some(dev))
                       /\ issued' = Append(issued, Len(paths))
                  ELSE /\ paths' = paths
                       /\ issued' = issued
            /\ pc' \in {"scan", "lib_new", "ready"}
            /\ devices(paths') = issued'
            /\ \A a, b \in 1..Len(paths') :
                  a < b => /\ paths'[a] # None
                           /\ paths'[b] # None
                           /\ ScanPos(paths'[a][1]) < ScanPos(paths'[b][1])]_vars

\* C13 witness: the scan has skipped the root node, a bare interface, and
\* given identifier 0 to the device below it.
C13_Witness ==
    /\ last.op = "add_device"
    /\ last.id = Some(0)
    /\ last.raw[1].path # Root
    /\ sys[Root] = "iface"
    /\ devices(paths) = <<0>>

\* C14: the identity table is append-only: no step shortens it, and the
\* only change a step makes to an entry already in it is to set its locator
\* from Some to None.
C14_AppendOnly ==
    [][/\ Len(paths') >= Len(paths)
       /\ \A k \in 1..Len(paths) :
             \/ paths'[k] = paths[k]
             \/ paths[k] # None /\ paths'[k] = None]_vars

\* C14 witness: a poll has yielded Remove(0) in a table of two entries,
\* leaving the tombstone at index 0 and entry 1 where it was.
C14_Witness ==
    /\ last.op = "poll"
    /\ last.out = "Remove"
    /\ last.id = Some(0)
    /\ Len(paths) = 2
    /\ paths[1] = None
    /\ paths[2] # None

\* C15: a poll is atomic on the identity table: one that returns not-ready
\* or an error leaves the table and the cached metadata as they were, and
\* one that changes the table makes exactly the change of the event it
\* yields: Add(id) appends the connected entry id, Remove(id) tombstones the
\* connected entry id, and nothing else is touched.
C15_PollAtomic ==
    [][last'.op = "poll" =>
          /\ last'.out \in {"NotReady", "Err"} =>
                paths' = paths /\ metadata' = metadata
          /\ paths' # paths =>
                \/ /\ last'.out = "Add"
                   /\ last'.id = Some(Len(paths))
                   /\ paths' = Append(paths, Some(last'.raw[1].path))
                   /\ Len(metadata') = Len(metadata) + 1
                \/ /\ last'.out = "Remove"
                   /\ last'.id # None
                   /\ is_connected(paths, last'.id[1])
                   /\ paths' = [paths EXCEPT ![last'.id[1] + 1] = None]
                   /\ metadata' = metadata]_vars

\* C16: at most one connected entry holds a given locator: no two entries
\* with locator Some hold equal locators, whatever the raw feed delivers.
C16_UniqueLocator ==
    \A a, b \in 1..Len(paths) :
        (a # b /\ paths[a] # None /\ paths[b] # None) => paths[a] # paths[b]

\* C17: the cached metadata and the locator table stay aligned: once
\* Context::new has returned, and after every poll of any monitor, both have
\* the same length; a step that caches metadata pushes exactly one entry, at
\* the index of the identifier it is for, and each value in it is one the
\* device of that identifier resolved to while the step ran, or None where
\* the lookup failed.
C17_MetadataAligned ==
    [][/\ (pc' = "ready" \/ last'.op = "poll") => Len(metadata') = Len(paths')
       /\ metadata' # metadata =>
            LET i == Len(metadata)
                dev == IF last'.op = "poll" THEN last'.raw[1].path
                       ELSE paths[i + 1][1]
            IN /\ Len(metadata') = i + 1
               /\ SubSeq(metadata', 1, i) = metadata
               /\ i < Len(paths')
               /\ last'.op = "poll" => last'.id = Some(i)
               /\ last'.op = "add" => last'.arg = Some(i)
               /\ \E t \in LaterTrees[sys] :
                     metadata'[i + 1].vendor_id = walk_hex[t][dev]["idVendor"]
               /\ \E t \in LaterTrees[sys] :
                     metadata'[i + 1].product_id \in
                        {None, walk_hex[t][dev]["idProduct"]}]_vars

\* C18: every identifier is carried by at most one yielded Add and at most
\* one yielded Remove, over the polls of all monitors: the identifier of a
\* yielded Add was never issued before, by the scan or by an earlier Add; a
\* yielded Remove carries an identifier already issued whose entry was
\* connected before the poll and is not after it; and no step reconnects an
\* entry, so no second Remove can carry it.
C18_OneAddOneRemove ==
    [][/\ (last'.op = "poll" /\ last'.out = "Add") =>
            /\ last'.id # None
            /\ \A k \in 1..Len(issued) : issued[k] # last'.id[1]
            /\ issued' = Append(issued, last'.id[1])
       /\ (last'.op = "poll" /\ last'.out = "Remove") =>
            /\ last'.id # None
            /\ \E k \in 1..Len(issued) : issued[k] = last'.id[1]
            /\ is_connected(paths, last'.id[1])
            /\ ~is_connected(paths', last'.id[1])
       /\ paths' # paths =>
            \A i \in Ids :
               id(paths, i) = "NotConnected" => id(paths', i) = "NotConnected"]_vars

\* C18 witness: identifiers 0 and 1 were issued, 0 is disconnected, and a
\* poll has just yielded Remove(1).
C18_Witness ==
    /\ PolledRaw("Remove")
    /\ last.out = "Remove"
    /\ last.id = Some(1)
    /\ issued = <<0, 1>>
    /\ paths = <<None, None>>

\* C19: tombstones are permanent: a step never sets the locator of an entry
\* back from None to Some, and a device added while tombstones exist is
\* appended under a fresh identifier.
C19_TombstonesPermanent ==
    [][paths' # paths =>
          /\ \A k \in 1..Len(paths) :
                (k <= Len(paths') /\ paths[k] = None) => paths'[k] = None
          /\ (last'.op = "poll" /\ last'.out = "Add") =>
                /\ last'.id = Some(Len(paths))
                /\ Len(paths') = Len(paths) + 1]_vars

\* C19 witness: the device of the tombstoned entry 0 was plugged in again
\* and announced; it is connected as identifier 1 and entry 0 is still a
\* tombstone.
C19_Witness ==
    /\ PolledRaw("Add")
    /\ last.out = "Add"
    /\ issued = <<0, 1>>
    /\ paths = <<None, Some(last.raw[1].path)>>
    /\ Opens(sys, last.raw[1].path)

\* C20: once the Context exists, vendor_id(id) and product_id(id) complete
\* with an Option for every identifier value, also for one at or above the
\* table length: the index into the cached metadata is within bounds.
C20_CacheIndexInBounds ==
    pc = "ready" =>
        \A i \in Ids : /\ ~vendor_id(metadata, i).panic
                       /\ ~product_id(metadata, i).panic

====
